---- MODULE Spec2Model ----
(***************************************************************************)
(* State-machine model of the storefront component App (src/react.jsx and  *)
(* its near-duplicate src/unnamed/part_000): the catalog loader, the       *)
(* filter engine (applyFilters) and the cart handlers.                     *)
(*                                                                         *)
(* Prices are integer cents.  Titles and search terms are sequences of     *)
(* one-character strings, so that toLowerCase and includes are computed.   *)
(***************************************************************************)
EXTENDS Integers, Sequences, FiniteSets, TLC

VARIABLES
    products,          \* useState([])   raw catalog
    filteredProducts,  \* useState([])   displayed list
    cart,              \* useState([])   cart lines
    searchTerm,        \* useState('')
    selectedCategory,  \* useState('')
    sortOrder,         \* useState('')
    loading,           \* useState(true)
    fetchState,        \* position of fetchProducts: "idle", "pending", "resolved", "rejected"
    data,              \* the list the fetch delivered (<<>> until it resolves)
    fetches,           \* number of times fetchProducts has been started
    effectPending,     \* the applyFilters effect is scheduled (a dependency changed)
    last,              \* the last handler call: its name, arguments, the cart before it, whether it threw
    run                \* consecutive addToCart calls on one product since the cart was empty

vars == <<products, filteredProducts, cart, searchTerm, selectedCategory, sortOrder,
          loading, fetchState, data, fetches, effectPending, last, run>>

----------------------------------------------------------------------------
(* Bounds of the model *)

\* longest catalog the fetch delivers
MaxCatalog == 2
\* updateQuantity is called with newQuantity in -1 .. MaxQty
MaxQty == 3
\* the counter of consecutive addToCart calls saturates here
MaxRun == 3

----------------------------------------------------------------------------
(* Sample data: the product records the endpoint can deliver *)

Product(i, t, p, c, n) ==
    [id |-> i, title |-> t, price |-> p, category |-> c, rating |-> [count |-> n]]

RedShirt == Product(1, <<"R","e","d"," ","S","h","i","r","t">>, 2000, "clothing", 2)
Shoe     == Product(2, <<"S","h","o","e">>, 1500, "footwear", 0)
ShirtXL  == Product(3, <<"S","H","I","R","T"," ","X","L">>, 2000, "Clothing", 1)
Pool == {RedShirt, Shoe, ShirtXL}

ProductIds == {p.id : p \in Pool}

\* the lists the endpoint can answer with: products with unique ids
Catalogs ==
    {s \in UNION {[1..n -> Pool] : n \in 0..MaxCatalog} :
        \A i, j \in DOMAIN s : i # j => s[i].id # s[j].id}

SearchTerms == {<<>>, <<"s","h","i","r","t">>}
Categories  == {"", "clothing"}
SortOrders  == {"", "low-high", "high-low"}

----------------------------------------------------------------------------
(* JavaScript array helpers *)

\* what Array.prototype.find returns when nothing matches
Undefined == [undefined |-> TRUE]

\* s.find(item => item.id === id)
FindById(s, id) ==
    IF \E i \in DOMAIN s : s[i].id = id
    THEN s[CHOOSE i \in DOMAIN s : s[i].id = id /\ \A j \in 1..(i-1) : s[j].id # id]
    ELSE Undefined

\* Math.min for the saturating counter of consecutive calls
Min(a, b) == IF a <= b THEN a ELSE b

Upper == <<"A","B","C","D","E","F","G","H","I","J","K","L","M",
           "N","O","P","Q","R","S","T","U","V","W","X","Y","Z">>
Lower == <<"a","b","c","d","e","f","g","h","i","j","k","l","m",
           "n","o","p","q","r","s","t","u","v","w","x","y","z">>

\* String.prototype.toLowerCase, character by character
toLowerCase(str) ==
    [k \in DOMAIN str |->
        IF \E i \in DOMAIN Upper : Upper[i] = str[k]
        THEN Lower[CHOOSE i \in DOMAIN Upper : Upper[i] = str[k]]
        ELSE str[k]]

\* String.prototype.includes: needle occurs in hay as a contiguous substring
includes(hay, needle) ==
    \E k \in 0..(Len(hay) - Len(needle)) : SubSeq(hay, k + 1, k + Len(needle)) = needle

\* the comparators handed to sort: (a, b) => a.price - b.price for
\* 'low-high', (a, b) => b.price - a.price for 'high-low'
Compare(order, a, b) ==
    IF order = "low-high" THEN a.price - b.price ELSE b.price - a.price

\* an unstable insertion: x goes before the elements it compares equal to
RECURSIVE InsertSortedUnstable(_, _, _)
InsertSortedUnstable(order, sorted, x) ==
    IF sorted = <<>> THEN <<x>>
    ELSE IF Compare(order, Head(sorted), x) < 0
         THEN <<Head(sorted)>> \o InsertSortedUnstable(order, Tail(sorted), x)
         ELSE <<x>> \o sorted

\* Array.prototype.sort(cmp) is stable: x goes after every element that does
\* not compare greater than it
RECURSIVE InsertSorted(_, _, _)
InsertSorted(order, sorted, x) ==
    IF sorted = <<>> THEN <<x>>
    ELSE IF Compare(order, Head(sorted), x) <= 0
         THEN <<Head(sorted)>> \o InsertSorted(order, Tail(sorted), x)
         ELSE <<x>> \o sorted

RECURSIVE SortBy(_, _)
SortBy(order, s) ==
    IF s = <<>> THEN <<>>
    ELSE InsertSorted(order, SortBy(order, SubSeq(s, 1, Len(s) - 1)), s[Len(s)])

----------------------------------------------------------------------------
(* Filter engine *)

\* applyFilters treating the default sort order '' as 'low-high'
applyFiltersAlwaysSorts(ps, term, cat, order) ==
    LET searched == IF term # <<>>
                    THEN SelectSeq(ps, LAMBDA product :
                             includes(toLowerCase(product.title), toLowerCase(term)))
                    ELSE ps
        inCat    == IF cat # ""
                    THEN SelectSeq(searched, LAMBDA product : product.category = cat)
                    ELSE searched
        sorted   == IF order = "high-low"
                    THEN SortBy("high-low", inCat)
                    ELSE SortBy("low-high", inCat)
    IN  [products |-> ps, filtered |-> sorted]

\* applyFilters without searchTerm.toLowerCase(): the search is case-sensitive
\* in the term
applyFiltersCaseSensitive(ps, term, cat, order) ==
    LET searched == IF term # <<>>
                    THEN SelectSeq(ps, LAMBDA product :
                             includes(toLowerCase(product.title), term))
                    ELSE ps
        inCat    == IF cat # ""
                    THEN SelectSeq(searched, LAMBDA product : product.category = cat)
                    ELSE searched
        sorted   == IF order = "low-high"
                    THEN SortBy("low-high", inCat)
                    ELSE IF order = "high-low"
                    THEN SortBy("high-low", inCat)
                    ELSE inCat
    IN  [products |-> ps, filtered |-> sorted]

\* applyFilters comparing categories without regard to case
applyFiltersCategoryIgnoreCase(ps, term, cat, order) ==
    LET searched == IF term # <<>>
                    THEN SelectSeq(ps, LAMBDA product :
                             includes(toLowerCase(product.title), toLowerCase(term)))
                    ELSE ps
        inCat    == IF cat # ""
                    THEN SelectSeq(searched, LAMBDA product :
                             product.category = cat
                             \/ {product.category, cat} = {"clothing", "Clothing"})
                    ELSE searched
        sorted   == IF order = "low-high"
                    THEN SortBy("low-high", inCat)
                    ELSE IF order = "high-low"
                    THEN SortBy("high-low", inCat)
                    ELSE inCat
    IN  [products |-> ps, filtered |-> sorted]

\* applyFilters whose category filter starts again from the raw catalog
\* (products.filter for filtered.filter): the search result is discarded
applyFiltersCategoryOverwrites(ps, term, cat, order) ==
    LET searched == IF term # <<>>
                    THEN SelectSeq(ps, LAMBDA product :
                             includes(toLowerCase(product.title), toLowerCase(term)))
                    ELSE ps
        inCat    == IF cat # ""
                    THEN SelectSeq(ps, LAMBDA product : product.category = cat)
                    ELSE searched
        sorted   == IF order = "low-high"
                    THEN SortBy("low-high", inCat)
                    ELSE IF order = "high-low"
                    THEN SortBy("high-low", inCat)
                    ELSE inCat
    IN  [products |-> ps, filtered |-> sorted]

\* applyFilters sorting the raw array itself (filtered = products, no copy):
\* with no filter active the in-place sort reorders the catalog
applyFiltersInPlace(ps, term, cat, order) ==
    LET searched == IF term # <<>>
                    THEN SelectSeq(ps, LAMBDA product :
                             includes(toLowerCase(product.title), toLowerCase(term)))
                    ELSE ps
        inCat    == IF cat # ""
                    THEN SelectSeq(searched, LAMBDA product : product.category = cat)
                    ELSE searched
        sorted   == IF order = "low-high"
                    THEN SortBy("low-high", inCat)
                    ELSE IF order = "high-low"
                    THEN SortBy("high-low", inCat)
                    ELSE inCat
    IN  [products |-> IF term = <<>> /\ cat = "" THEN sorted ELSE ps, filtered |-> sorted]

\* applyFilters: the list handed to setFilteredProducts, and the raw array as
\* the function leaves it (it works on the copy [...products])
applyFilters(ps, term, cat, order) ==
    LET copy     == ps
        searched == IF term # <<>>
                    THEN SelectSeq(copy, LAMBDA product :
                             includes(toLowerCase(product.title), toLowerCase(term)))
                    ELSE copy
        inCat    == IF cat # ""
                    THEN SelectSeq(searched, LAMBDA product : product.category = cat)
                    ELSE searched
        sorted   == IF order = "low-high"
                    THEN SortBy("low-high", inCat)
                    ELSE IF order = "high-low"
                    THEN SortBy("high-low", inCat)
                    ELSE inCat
    IN  [products |-> ps, filtered |-> sorted]

----------------------------------------------------------------------------
(* Cart manager: each operator gives the cart the handler leaves, computed  *)
(* from the cart c and the catalog ps its closure holds                     *)

\* addToCart with the stock test off by one (<= for <)
addToCartOffByOne(c, product) ==
    LET existingItem == FindById(c, product.id)
    IN  IF existingItem # Undefined
        THEN IF existingItem.quantity <= product.rating.count
             THEN [i \in DOMAIN c |->
                      IF c[i].id = product.id
                      THEN [c[i] EXCEPT !.quantity = c[i].quantity + 1]
                      ELSE c[i]]
             ELSE c
        ELSE Append(c, [id |-> product.id, title |-> product.title,
                        price |-> product.price, category |-> product.category,
                        rating |-> product.rating, quantity |-> 1])

\* addToCart without the stock test on an existing line: it always increments
addToCartUnchecked(c, product) ==
    LET existingItem == FindById(c, product.id)
    IN  IF existingItem # Undefined
        THEN [i \in DOMAIN c |->
                 IF c[i].id = product.id
                 THEN [c[i] EXCEPT !.quantity = c[i].quantity + 1]
                 ELSE c[i]]
        ELSE Append(c, [id |-> product.id, title |-> product.title,
                        price |-> product.price, category |-> product.category,
                        rating |-> product.rating, quantity |-> 1])

\* addToCart without the lookup of an existing line: it always appends
addToCartAlwaysAppends(c, product) ==
    Append(c, [id |-> product.id, title |-> product.title,
               price |-> product.price, category |-> product.category,
               rating |-> product.rating, quantity |-> 1])

addToCart(c, product) ==
    LET existingItem == FindById(c, product.id)
    IN  IF existingItem # Undefined
        THEN IF existingItem.quantity < product.rating.count
             THEN [i \in DOMAIN c |->
                      IF c[i].id = product.id
                      THEN [c[i] EXCEPT !.quantity = c[i].quantity + 1]
                      ELSE c[i]]
             ELSE c
        ELSE Append(c, [id |-> product.id, title |-> product.title,
                        price |-> product.price, category |-> product.category,
                        rating |-> product.rating, quantity |-> 1])

\* removeFromCart with the filter inverted (=== for !==)
removeFromCartInverted(c, productId) ==
    SelectSeq(c, LAMBDA item : item.id = productId)

removeFromCart(c, productId) ==
    SelectSeq(c, LAMBDA item : item.id # productId)

\* updateQuantity removing only at newQuantity === 0
updateQuantityZeroOnly(c, ps, productId, newQuantity) ==
    LET product == FindById(ps, productId)
    IN  IF product = Undefined
        THEN [cart |-> c, threw |-> TRUE]
        ELSE LET maxStock == product.rating.count
             IN  IF newQuantity = 0
                 THEN [cart |-> SelectSeq(c, LAMBDA item : item.id # productId), threw |-> FALSE]
                 ELSE IF newQuantity <= maxStock
                 THEN [cart |-> [i \in DOMAIN c |->
                                    IF c[i].id = productId
                                    THEN [c[i] EXCEPT !.quantity = newQuantity]
                                    ELSE c[i]],
                       threw |-> FALSE]
                 ELSE [cart |-> c, threw |-> FALSE]

\* updateQuantity with the stock test strict (< for <=)
updateQuantityStrict(c, ps, productId, newQuantity) ==
    LET product == FindById(ps, productId)
    IN  IF product = Undefined
        THEN [cart |-> c, threw |-> TRUE]
        ELSE LET maxStock == product.rating.count
             IN  IF newQuantity <= 0
                 THEN [cart |-> SelectSeq(c, LAMBDA item : item.id # productId), threw |-> FALSE]
                 ELSE IF newQuantity < maxStock
                 THEN [cart |-> [i \in DOMAIN c |->
                                    IF c[i].id = productId
                                    THEN [c[i] EXCEPT !.quantity = newQuantity]
                                    ELSE c[i]],
                       threw |-> FALSE]
                 ELSE [cart |-> c, threw |-> FALSE]

\* product.rating.count with product undefined is a TypeError: the handler
\* stops there, before any setCart
updateQuantity(c, ps, productId, newQuantity) ==
    LET product == FindById(ps, productId)
    IN  IF product = Undefined
        THEN [cart |-> c, threw |-> TRUE]
        ELSE LET maxStock == product.rating.count
             IN  IF newQuantity <= 0
                 THEN [cart |-> removeFromCart(c, productId), threw |-> FALSE]
                 ELSE IF newQuantity <= maxStock
                 THEN [cart |-> [i \in DOMAIN c |->
                                    IF c[i].id = productId
                                    THEN [c[i] EXCEPT !.quantity = newQuantity]
                                    ELSE c[i]],
                       threw |-> FALSE]
                 ELSE [cart |-> c, threw |-> FALSE]

\* getTotalItems counting lines instead of quantities
getTotalItemsCountsLines(c) == Len(c)

\* c.reduce((sum, item) => sum + item.quantity, 0)
RECURSIVE getTotalItems(_)
getTotalItems(c) ==
    IF c = <<>> THEN 0 ELSE getTotalItems(SubSeq(c, 1, Len(c) - 1)) + c[Len(c)].quantity

\* c.reduce((sum, item) => sum + (item.price * item.quantity), 0)
RECURSIVE SumPriceOf(_)
SumPriceOf(c) ==
    IF c = <<>> THEN 0
    ELSE SumPriceOf(SubSeq(c, 1, Len(c) - 1)) + c[Len(c)].price * c[Len(c)].quantity

Digit == <<"0","1","2","3","4","5","6","7","8","9">>

RECURSIVE Decimal(_)
Decimal(n) == IF n < 10 THEN <<Digit[n + 1]>> ELSE Decimal(n \div 10) \o <<Digit[(n % 10) + 1]>>

\* Number.prototype.toFixed(2) of an amount held in cents
toFixed2(cents) ==
    Decimal(cents \div 100) \o <<".">> \o <<Digit[((cents % 100) \div 10) + 1], Digit[(cents % 10) + 1]>>

getTotalPrice(c) == toFixed2(SumPriceOf(c))

\* [...new Set(s)]: the values of s, each once, in order of first occurrence
RECURSIVE Distinct(_)
Distinct(s) ==
    IF s = <<>> THEN <<>>
    ELSE LET r == Distinct(SubSeq(s, 1, Len(s) - 1))
         IN  IF \E i \in DOMAIN r : r[i] = s[Len(s)] THEN r ELSE Append(r, s[Len(s)])

\* getCategories reading the displayed list instead of the raw catalog
getCategoriesOfView ==
    Distinct([i \in DOMAIN filteredProducts |-> filteredProducts[i].category])

getCategories == Distinct([i \in DOMAIN products |-> products[i].category])

isOutOfStock(product) == product.rating.count = 0

----------------------------------------------------------------------------
(* The component *)

\* a handler call as recorded in last
Call(op, id, qty, before, threw) ==
    [op |-> op, id |-> id, qty |-> qty, cart |-> before, threw |-> threw]

NoRun == [id |-> 0, n |-> 0]

Init ==
    /\ products = <<>>
    /\ filteredProducts = <<>>
    /\ cart = <<>>
    /\ searchTerm = <<>>
    /\ selectedCategory = ""
    /\ sortOrder = ""
    /\ loading = TRUE
    /\ fetchState = "idle"
    /\ data = <<>>
    /\ fetches = 0
    /\ effectPending = FALSE
    /\ last = Call("init", 0, 0, <<>>, FALSE)
    /\ run = NoRun

\* the handlers exist once the component has rendered and its mount effects
\* have run; React runs a scheduled effect before it handles the next event
Ready == fetchState # "idle" /\ ~effectPending

\* the two mount effects: fetchProducts() runs up to its first await, then
\* applyFilters() runs on the initial state
Mount ==
    /\ fetchState = "idle"
    /\ fetchState' = "pending"
    /\ fetches' = fetches + 1
    /\ LET r == applyFilters(products, searchTerm, selectedCategory, sortOrder)
       IN  /\ products' = r.products
           /\ filteredProducts' = r.filtered
    /\ last' = Call("mount", 0, 0, cart, FALSE)
    /\ run' = NoRun
    /\ UNCHANGED <<cart, searchTerm, selectedCategory, sortOrder, loading, data, effectPending>>

\* fetchProducts after its awaits: setProducts(data); setLoading(false).  The
\* promise settles whenever the transport delivers, whether or not an effect
\* is still scheduled; the effect then runs on the new catalog
FetchResolve(d) ==
    /\ fetchState = "pending"
    /\ fetchState' = "resolved"
    /\ data' = d
    /\ products' = d
    /\ loading' = FALSE
    /\ effectPending' = TRUE
    /\ last' = Call("fetchResolve", 0, 0, cart, FALSE)
    /\ run' = NoRun
    /\ UNCHANGED <<filteredProducts, cart, searchTerm, selectedCategory, sortOrder, fetches>>

\* the catch block without its setLoading(false)
FetchRejectKeepsLoading(kind) ==
    /\ fetchState = "pending"
    /\ fetchState' = "rejected"
    /\ last' = [op |-> kind, id |-> 0, qty |-> 0, cart |-> cart, threw |-> FALSE]
    /\ run' = [id |-> 0, n |-> 0]
    /\ UNCHANGED <<products, filteredProducts, cart, searchTerm, selectedCategory,
                   sortOrder, loading, data, fetches, effectPending>>

\* fetchProducts' catch block, entered when fetch() rejects ("network") or
\* response.json() rejects ("decode"): console.error; setLoading(false)
FetchReject(kind) ==
    /\ fetchState = "pending"
    /\ fetchState' = "rejected"
    /\ loading' = FALSE
    /\ last' = Call(kind, 0, 0, cart, FALSE)
    /\ run' = NoRun
    /\ UNCHANGED <<products, filteredProducts, cart, searchTerm, selectedCategory,
                   sortOrder, data, fetches, effectPending>>

\* useEffect(() => applyFilters(), [products, searchTerm, selectedCategory, sortOrder])
ApplyFiltersEffect ==
    /\ effectPending
    /\ LET r == applyFilters(products, searchTerm, selectedCategory, sortOrder)
       IN  /\ products' = r.products
           /\ filteredProducts' = r.filtered
    /\ effectPending' = FALSE
    /\ UNCHANGED <<cart, searchTerm, selectedCategory, sortOrder, loading, fetchState,
                   data, fetches, last, run>>

SetSearchTerm(t) ==
    /\ Ready
    /\ searchTerm' = t
    /\ effectPending' = (t # searchTerm)
    /\ last' = Call("setSearchTerm", 0, 0, cart, FALSE)
    /\ run' = NoRun
    /\ UNCHANGED <<products, filteredProducts, cart, selectedCategory, sortOrder, loading,
                   fetchState, data, fetches>>

SetSelectedCategory(k) ==
    /\ Ready
    /\ selectedCategory' = k
    /\ effectPending' = (k # selectedCategory)
    /\ last' = Call("setSelectedCategory", 0, 0, cart, FALSE)
    /\ run' = NoRun
    /\ UNCHANGED <<products, filteredProducts, cart, searchTerm, sortOrder, loading,
                   fetchState, data, fetches>>

\* setSortOrder with sortOrder missing from the effect's dependency array:
\* the change schedules no recomputation
SetSortOrderNoEffect(o) ==
    /\ fetchState # "idle" /\ ~effectPending
    /\ sortOrder' = o
    /\ last' = [op |-> "setSortOrder", id |-> 0, qty |-> 0, cart |-> cart, threw |-> FALSE]
    /\ run' = [id |-> 0, n |-> 0]
    /\ UNCHANGED <<products, filteredProducts, cart, searchTerm, selectedCategory, loading,
                   fetchState, data, fetches, effectPending>>

SetSortOrder(o) ==
    /\ Ready
    /\ sortOrder' = o
    /\ effectPending' = (o # sortOrder)
    /\ last' = Call("setSortOrder", 0, 0, cart, FALSE)
    /\ run' = NoRun
    /\ UNCHANGED <<products, filteredProducts, cart, searchTerm, selectedCategory, loading,
                   fetchState, data, fetches>>

\* clearFilters without its setSortOrder('')
ClearFiltersKeepsSort ==
    /\ fetchState # "idle" /\ ~effectPending
    /\ searchTerm' = <<>>
    /\ selectedCategory' = ""
    /\ effectPending' = (searchTerm # <<>> \/ selectedCategory # "")
    /\ last' = [op |-> "clearFilters", id |-> 0, qty |-> 0, cart |-> cart, threw |-> FALSE]
    /\ run' = [id |-> 0, n |-> 0]
    /\ UNCHANGED <<products, filteredProducts, cart, sortOrder, loading, fetchState,
                   data, fetches>>

\* clearFilters as a reset of the whole page: it also calls setCart([])
ClearFiltersEmptiesCart ==
    /\ fetchState # "idle" /\ ~effectPending
    /\ searchTerm' = <<>>
    /\ selectedCategory' = ""
    /\ sortOrder' = ""
    /\ cart' = <<>>
    /\ effectPending' = (searchTerm # <<>> \/ selectedCategory # "" \/ sortOrder # "")
    /\ last' = [op |-> "clearFilters", id |-> 0, qty |-> 0, cart |-> cart, threw |-> FALSE]
    /\ run' = [id |-> 0, n |-> 0]
    /\ UNCHANGED <<products, filteredProducts, loading, fetchState, data, fetches>>

ClearFilters ==
    /\ Ready
    /\ searchTerm' = <<>>
    /\ selectedCategory' = ""
    /\ sortOrder' = ""
    /\ effectPending' = (searchTerm # <<>> \/ selectedCategory # "" \/ sortOrder # "")
    /\ last' = Call("clearFilters", 0, 0, cart, FALSE)
    /\ run' = NoRun
    /\ UNCHANGED <<products, filteredProducts, cart, loading, fetchState, data, fetches>>

\* addToCart called with a product of the catalog, whether or not its button
\* is enabled
AddToCart(product) ==
    /\ Ready
    /\ cart' = addToCart(cart, product)
    /\ last' = Call("addToCart", product.id, 0, cart, FALSE)
    /\ run' = IF cart = <<>>
              THEN [id |-> product.id, n |-> 1]
              ELSE IF run.id = product.id
              THEN [id |-> product.id, n |-> Min(run.n + 1, MaxRun)]
              ELSE NoRun
    /\ UNCHANGED <<products, filteredProducts, searchTerm, selectedCategory, sortOrder,
                   loading, fetchState, data, fetches, effectPending>>

RemoveFromCart(productId) ==
    /\ Ready
    /\ cart' = removeFromCart(cart, productId)
    /\ last' = Call("removeFromCart", productId, 0, cart, FALSE)
    /\ run' = NoRun
    /\ UNCHANGED <<products, filteredProducts, searchTerm, selectedCategory, sortOrder,
                   loading, fetchState, data, fetches, effectPending>>

UpdateQuantity(productId, newQuantity) ==
    /\ Ready
    /\ LET r == updateQuantity(cart, products, productId, newQuantity)
       IN  /\ cart' = r.cart
           /\ last' = Call("updateQuantity", productId, newQuantity, cart, r.threw)
    /\ run' = NoRun
    /\ UNCHANGED <<products, filteredProducts, searchTerm, selectedCategory, sortOrder,
                   loading, fetchState, data, fetches, effectPending>>

Next ==
    \/ Mount
    \/ \E d \in Catalogs : FetchResolve(d)
    \/ \E kind \in {"network", "decode"} : FetchReject(kind)
    \/ ApplyFiltersEffect
    \/ \E t \in SearchTerms : SetSearchTerm(t)
    \/ \E k \in Categories : SetSelectedCategory(k)
    \/ \E o \in SortOrders : SetSortOrder(o)
    \/ ClearFilters
    \/ \E i \in DOMAIN products : AddToCart(products[i])
    \/ \E id \in ProductIds : RemoveFromCart(id)
    \/ \E id \in ProductIds, n \in -1..MaxQty : UpdateQuantity(id, n)

Spec == Init /\ [][Next]_vars

\* React runs the mount effects and every scheduled effect; the transport
\* delivers the outcome of the fetch (there is no timeout and no retry)
Fairness ==
    /\ WF_vars(Mount)
    /\ WF_vars(ApplyFiltersEffect)
    /\ WF_vars((\E d \in Catalogs : FetchResolve(d)) \/ (\E kind \in {"network", "decode"} : FetchReject(kind)))

LiveSpec == Spec /\ Fairness

----------------------------------------------------------------------------
(* Two cart handlers called within one render: both closures hold the same  *)
(* cart and catalog, and React applies the batched setCart calls in order,  *)
(* so the value of the last call stands                                     *)

\* the cart calls that can be made on products of the catalog ps
CartCalls(ps) ==
    LET ids == {ps[i].id : i \in DOMAIN ps}
    IN  {[op |-> "addToCart", id |-> id, qty |-> 0] : id \in ids}
        \cup {[op |-> "removeFromCart", id |-> id, qty |-> 0] : id \in ids}
        \cup {[op |-> "updateQuantity", id |-> id, qty |-> n] : id \in ids, n \in -1..MaxQty}

\* one handler run with the closure's cart c and catalog ps: the value it
\* passes to setCart, and whether it calls setCart at all
Handle(call, c, ps) ==
    IF call.op = "addToCart"
    THEN LET existingItem == FindById(c, call.id)
             product      == FindById(ps, call.id)
         IN  [cart |-> addToCart(c, product),
              sets |-> (existingItem = Undefined
                        \/ existingItem.quantity < product.rating.count)]
    ELSE IF call.op = "removeFromCart"
    THEN [cart |-> removeFromCart(c, call.id), sets |-> TRUE]
    ELSE [cart |-> updateQuantity(c, ps, call.id, call.qty).cart,
          sets |-> (call.qty <= 0 \/ call.qty <= FindById(ps, call.id).rating.count)]

Batch(first, second) ==
    /\ Ready
    /\ LET r1 == Handle(first, cart, products)
           r2 == Handle(second, cart, products)
       IN  cart' = IF r2.sets THEN r2.cart ELSE IF r1.sets THEN r1.cart ELSE cart
    /\ last' = [op |-> "batch", id |-> 0, qty |-> 0, cart |-> cart, threw |-> FALSE,
                first |-> first, second |-> second]
    /\ run' = NoRun
    /\ UNCHANGED <<products, filteredProducts, searchTerm, selectedCategory, sortOrder,
                   loading, fetchState, data, fetches, effectPending>>

BatchNext ==
    \/ Mount
    \/ \E d \in Catalogs : FetchResolve(d)
    \/ \E kind \in {"network", "decode"} : FetchReject(kind)
    \/ ApplyFiltersEffect
    \/ \E i \in DOMAIN products : AddToCart(products[i])
    \/ \E id \in ProductIds : RemoveFromCart(id)
    \/ \E id \in ProductIds, n \in -1..MaxQty : UpdateQuantity(id, n)
    \/ \E first, second \in CartCalls(products) : Batch(first, second)

BatchSpec == Init /\ [][BatchNext]_vars

----------------------------------------------------------------------------
(* The events the rendered page offers *)

\* the page (filters, product grid, cart) is rendered once loading is false
UIReady == Ready /\ ~loading

\* "Add to Cart" of a displayed product; the button is disabled when the
\* product is out of stock
ClickAddToCart(i) ==
    /\ UIReady
    /\ i \in DOMAIN filteredProducts
    /\ ~isOutOfStock(filteredProducts[i])
    /\ AddToCart(filteredProducts[i])

\* "-" of a cart line: updateQuantity(item.id, item.quantity - 1)
ClickMinus(i) ==
    /\ UIReady
    /\ i \in DOMAIN cart
    /\ UpdateQuantity(cart[i].id, cart[i].quantity - 1)

\* "+" of a cart line: updateQuantity(item.id, item.quantity + 1)
ClickPlus(i) ==
    /\ UIReady
    /\ i \in DOMAIN cart
    /\ UpdateQuantity(cart[i].id, cart[i].quantity + 1)

\* the X of a cart line: removeFromCart(item.id)
ClickRemove(i) ==
    /\ UIReady
    /\ i \in DOMAIN cart
    /\ RemoveFromCart(cart[i].id)

TypeSearch(t) == UIReady /\ SetSearchTerm(t)

\* the select offers "All Categories" and the options of getCategories()
SelectCategory(k) ==
    /\ UIReady
    /\ k = "" \/ \E i \in DOMAIN getCategories : getCategories[i] = k
    /\ SetSelectedCategory(k)

SelectSort(o) == UIReady /\ SetSortOrder(o)

ClickClearFilters == UIReady /\ ClearFilters

UINext ==
    \/ Mount
    \/ \E d \in Catalogs : FetchResolve(d)
    \/ \E kind \in {"network", "decode"} : FetchReject(kind)
    \/ ApplyFiltersEffect
    \/ \E i \in 1..MaxCatalog : ClickAddToCart(i)
    \/ \E i \in 1..MaxCatalog : ClickMinus(i)
    \/ \E i \in 1..MaxCatalog : ClickPlus(i)
    \/ \E i \in 1..MaxCatalog : ClickRemove(i)
    \/ \E t \in SearchTerms : TypeSearch(t)
    \/ \E k \in {""} \cup {p.category : p \in Pool} : SelectCategory(k)
    \/ \E o \in SortOrders : SelectSort(o)
    \/ ClickClearFilters

UISpec == Init /\ [][UINext]_vars

----------------------------------------------------------------------------
(* The filter engine on its own: the component just after a load that       *)
(* delivered any catalog of ViewCatalogs, under any criteria                *)

\* longest catalog handed to the filter engine
MaxView == 3

Hat == Product(4, <<"H","a","t">>, 1500, "clothing", 1)

ViewPool == {RedShirt, Shoe, ShirtXL, Hat}

ViewCatalogs ==
    {s \in UNION {[1..n -> ViewPool] : n \in 0..MaxView} :
        \A i, j \in DOMAIN s : i # j => s[i].id # s[j].id}

ViewTerms == {<<>>, <<"s","h","i","r","t">>, <<"S","H">>, <<"x">>}

ViewCategories == {"", "clothing", "Clothing", "footwear"}

ViewInit ==
    /\ products \in ViewCatalogs
    /\ data = products
    /\ filteredProducts = <<>>
    /\ cart = <<>>
    /\ searchTerm \in ViewTerms
    /\ selectedCategory \in ViewCategories
    /\ sortOrder \in SortOrders
    /\ loading = FALSE
    /\ fetchState = "resolved"
    /\ fetches = 1
    /\ effectPending = TRUE
    /\ last = Call("fetchResolve", 0, 0, <<>>, FALSE)
    /\ run = NoRun

ViewNext ==
    \/ ApplyFiltersEffect
    \/ \E t \in ViewTerms : SetSearchTerm(t)
    \/ \E k \in ViewCategories : SetSelectedCategory(k)
    \/ \E o \in SortOrders : SetSortOrder(o)
    \/ ClearFilters

ViewSpec == ViewInit /\ [][ViewNext]_vars

----------------------------------------------------------------------------
(* Vocabulary of the properties *)

CartOps == {"addToCart", "removeFromCart", "updateQuantity"}

HasLine(c, id) == \E i \in DOMAIN c : c[i].id = id

InCatalog(id) == \E i \in DOMAIN products : products[i].id = id

\* stockCount of the catalog's product id
StockOf(id) == products[CHOOSE i \in DOMAIN products : products[i].id = id].rating.count

\* quantity of the first line for id
QuantityOf(c, id) == c[CHOOSE i \in DOMAIN c : c[i].id = id].quantity

\* c with every line for id dropped, the other lines in their order
RECURSIVE Without(_, _)
Without(c, id) ==
    IF c = <<>> THEN <<>>
    ELSE IF Head(c).id = id THEN Without(Tail(c), id)
    ELSE <<Head(c)>> \o Without(Tail(c), id)

\* C1: every cart line has 1 <= quantity <= stockCount of its product, after
\* any sequence of cart calls on products of the catalog, out-of-stock
\* products included.
CartWithinStock ==
    \A i \in DOMAIN cart :
        /\ InCatalog(cart[i].id)
        /\ 1 <= cart[i].quantity
        /\ cart[i].quantity <= StockOf(cart[i].id)

\* C2: addToCart on a product with stockCount 0 that has no cart line leaves
\* the cart unchanged and creates no line for it.
AddToCartOutOfStockIsNoOp ==
    (/\ last.op = "addToCart"
     /\ StockOf(last.id) = 0
     /\ ~HasLine(last.cart, last.id))
    => (cart = last.cart /\ ~HasLine(cart, last.id))

\* C3: no cart handler throws, and updateQuantity on a product id that is not
\* in the raw catalog leaves the cart unchanged.
CartHandlersNeverThrow ==
    last.op \in CartOps =>
        /\ ~last.threw
        /\ (last.op = "updateQuantity" /\ ~InCatalog(last.id)) => cart = last.cart

\* C4: addToCart on a product with stockCount >= 1 appends a line of quantity
\* 1 when the product has none, raises the quantity q of its line to q+1 when
\* q+1 <= stockCount and leaves the cart unchanged when q = stockCount; every
\* other line is unchanged; n consecutive calls on one product from the empty
\* cart give quantity min(n, stockCount).
AddToCartContract ==
    (last.op = "addToCart" /\ StockOf(last.id) >= 1) =>
        LET pre   == last.cart
            stock == StockOf(last.id)
        IN  /\ ~HasLine(pre, last.id) =>
                  /\ Len(cart) = Len(pre) + 1
                  /\ \A i \in DOMAIN pre : cart[i] = pre[i]
                  /\ cart[Len(cart)].id = last.id
                  /\ cart[Len(cart)].quantity = 1
            /\ HasLine(pre, last.id) =>
                  /\ Len(cart) = Len(pre)
                  /\ \A i \in DOMAIN pre :
                        IF pre[i].id = last.id /\ pre[i].quantity + 1 <= stock
                        THEN cart[i] = [pre[i] EXCEPT !.quantity = pre[i].quantity + 1]
                        ELSE cart[i] = pre[i]
                  /\ QuantityOf(pre, last.id) = stock => cart = pre
            /\ run.n > 0 =>
                  /\ Len(cart) = 1
                  /\ cart[1].id = run.id
                  /\ cart[1].quantity = Min(run.n, stock)

\* C4 witness: the third consecutive addToCart on the product of stock 2 has
\* been rejected at the ceiling.
AddToCartAtCeiling ==
    /\ last.op = "addToCart"
    /\ last.id = RedShirt.id
    /\ run.n = 3
    /\ QuantityOf(last.cart, RedShirt.id) = 2
    /\ QuantityOf(cart, RedShirt.id) = 2

\* C5: for a product of the catalog that has a cart line, updateQuantity with
\* newQuantity <= 0 leaves the cart as removeFromCart does (the line is gone,
\* the others stay in order), and with newQuantity > stockCount it leaves the
\* cart unchanged.
UpdateQuantityRemovesOrRejects ==
    (/\ last.op = "updateQuantity"
     /\ InCatalog(last.id)
     /\ HasLine(last.cart, last.id)) =>
        /\ last.qty <= 0 =>
              /\ ~HasLine(cart, last.id)
              /\ cart = Without(last.cart, last.id)
        /\ last.qty > StockOf(last.id) => cart = last.cart

\* C5 witness: updateQuantity with a negative quantity has removed one of two
\* lines.
UpdateQuantityNegativeRemoved ==
    /\ last.op = "updateQuantity"
    /\ last.qty < 0
    /\ InCatalog(last.id)
    /\ Len(last.cart) = 2
    /\ HasLine(last.cart, last.id)
    /\ Len(cart) = 1

\* C6: updateQuantity with 1 <= newQuantity <= stockCount (of the catalog's
\* product) sets the quantity of the product's line to newQuantity, leaves the
\* other lines and the order unchanged, and creates no line.
UpdateQuantitySets ==
    (/\ last.op = "updateQuantity"
     /\ InCatalog(last.id)
     /\ 1 <= last.qty
     /\ last.qty <= StockOf(last.id)) =>
        /\ ~last.threw
        /\ Len(cart) = Len(last.cart)
        /\ \A i \in DOMAIN cart :
              IF last.cart[i].id = last.id
              THEN cart[i] = [last.cart[i] EXCEPT !.quantity = last.qty]
              ELSE cart[i] = last.cart[i]
        /\ ~HasLine(last.cart, last.id) => ~HasLine(cart, last.id)

\* C6 witness: the second of two lines went from quantity 1 to its stock.
UpdateQuantityToStock ==
    /\ last.op = "updateQuantity"
    /\ Len(cart) = 2
    /\ cart[2].id = last.id
    /\ last.qty = StockOf(last.id)
    /\ last.cart[2].quantity = 1
    /\ cart[2].quantity = 2

\* C7: removeFromCart deletes the line of productId when there is one and
\* changes nothing when there is none; the other lines keep quantity and
\* order; a second call changes nothing more.
RemoveFromCartContract ==
    last.op = "removeFromCart" =>
        /\ ~HasLine(cart, last.id)
        /\ cart = Without(last.cart, last.id)
        /\ ~HasLine(last.cart, last.id) => cart = last.cart
        /\ removeFromCart(cart, last.id) = cart

\* C7 witness: removeFromCart has deleted the first of two lines.
RemoveFromCartDeleted ==
    /\ last.op = "removeFromCart"
    /\ Len(last.cart) = 2
    /\ last.cart[1].id = last.id
    /\ cart = <<last.cart[2]>>

\* sum of the quantities of the lines of c, from the front
RECURSIVE SumQuantities(_)
SumQuantities(c) == IF c = <<>> THEN 0 ELSE Head(c).quantity + SumQuantities(Tail(c))

\* sum of price * quantity over the lines of c, in cents, from the front
RECURSIVE SumAmounts(_)
SumAmounts(c) ==
    IF c = <<>> THEN 0 ELSE Head(c).price * Head(c).quantity + SumAmounts(Tail(c))

\* the amount in cents a rendering "d...d.dd" stands for; -1 when the text
\* does not have exactly two decimals
RECURSIVE DigitsValue(_)
DigitsValue(str) ==
    IF str = <<>> THEN 0
    ELSE 10 * DigitsValue(SubSeq(str, 1, Len(str) - 1))
         + (CHOOSE d \in 0..9 : Digit[d + 1] = str[Len(str)])

CentsOf(str) ==
    IF /\ Len(str) >= 4
       /\ str[Len(str) - 2] = "."
       /\ \A k \in DOMAIN str : k # Len(str) - 2 => \E d \in 0..9 : Digit[d + 1] = str[k]
    THEN 100 * DigitsValue(SubSeq(str, 1, Len(str) - 3))
         + DigitsValue(SubSeq(str, Len(str) - 1, Len(str)))
    ELSE -1

\* C8: totalItems is the sum of the quantities and totalPrice the sum of
\* price * quantity written with exactly two decimals; 0 and "0.00" for the
\* empty cart; 2 and "40.00" for the product of price 20.00 and stock 2 after
\* three addToCart calls.
TotalsContract ==
    /\ getTotalItems(cart) = SumQuantities(cart)
    /\ CentsOf(getTotalPrice(cart)) = SumAmounts(cart)
    /\ cart = <<>> =>
          /\ getTotalItems(cart) = 0
          /\ getTotalPrice(cart) = <<"0", ".", "0", "0">>
    /\ (run.id = RedShirt.id /\ run.n >= 3) =>
          /\ getTotalItems(cart) = 2
          /\ getTotalPrice(cart) = <<"4", "0", ".", "0", "0">>

\* C8 witness: three addToCart calls on the product of price 20.00, stock 2.
TotalsAfterThreeAdds ==
    /\ run = [id |-> RedShirt.id, n |-> 3]
    /\ last.op = "addToCart"
    /\ getTotalItems(cart) = 2
    /\ getTotalPrice(cart) = <<"4", "0", ".", "0", "0">>

\* C9: the loader leaves the loading state: from loading = TRUE and an empty
\* catalog, loading eventually is false and stays false for ever, with the
\* catalog equal to the fetched list if the fetch succeeded and still empty
\* if the fetch or the decoding failed.
LoaderSettles ==
    <>[](/\ ~loading
         /\ \/ fetchState = "resolved" /\ products = data
            \/ fetchState = "rejected" /\ products = <<>>)

\* C9 witness: the decoding of the response has failed and loading is cleared
\* with the catalog empty.
LoadFailedAndIdle ==
    /\ fetchState = "rejected"
    /\ last.op = "decode"
    /\ ~loading
    /\ products = <<>>

\* C10: the fetch is started once, by the mount effect, and once the load has
\* resolved no step changes the raw catalog's contents or order.
CatalogIsFixedSnapshot ==
    [][/\ (fetchState \in {"resolved", "rejected"} => products' = products)
       /\ (fetches' # fetches => (fetchState = "idle" /\ fetches = 0 /\ fetches' = 1))
       /\ (fetchState' # "idle" => fetches' = 1)]_vars

\* C10 witness: after the load, the view has been sorted into an order other
\* than the catalog's and the cart has been changed, the catalog still being
\* the fetched list.
SortedViewCatalogIntact ==
    /\ fetchState = "resolved"
    /\ ~effectPending
    /\ sortOrder = "high-low"
    /\ searchTerm = <<>>
    /\ selectedCategory = ""
    /\ Len(products) = 2
    /\ filteredProducts = <<products[2], products[1]>>
    /\ products = data
    /\ last.op = "updateQuantity"
    /\ cart # last.cart

----------------------------------------------------------------------------
(* Properties of the displayed list *)

\* the view the filter engine computes from the current catalog and criteria
computeView == applyFilters(products, searchTerm, selectedCategory, sortOrder).filtered

\* C11: the displayed list equals computeView(catalog, criteria) in every
\* state where no recomputation is pending, and a pending recomputation is
\* followed by a state where none is pending and the list equals it.
ViewFollowsInputs ==
    /\ [](~effectPending => filteredProducts = computeView)
    /\ (effectPending ~> (~effectPending /\ filteredProducts = computeView))

\* C11 witness: after a change of the sort order the effect has run and the
\* displayed list is the catalog in another order.
ViewRecomputedAfterSort ==
    /\ last.op = "setSortOrder"
    /\ ~effectPending
    /\ sortOrder = "low-high"
    /\ Len(products) = 2
    /\ filteredProducts = <<products[2], products[1]>>

\* the two characters are the same letter, whatever their case
SameLetter(a, b) ==
    a = b \/ \E i \in DOMAIN Upper : {a, b} = {Upper[i], Lower[i]}

\* the title of p contains term, case-insensitively
TitleContains(p, term) ==
    \E k \in 0..(Len(p.title) - Len(term)) :
        \A j \in 1..Len(term) : SameLetter(p.title[k + j], term[j])

InView(p) == \E i \in DOMAIN filteredProducts : filteredProducts[i] = p

CatalogSet == {products[i] : i \in DOMAIN products}

ViewSet == {filteredProducts[i] : i \in DOMAIN filteredProducts}

\* position of p in the raw catalog
PosInCatalog(p) == CHOOSE i \in DOMAIN products : products[i] = p

\* C12: with empty searchTerm, empty category and sortOrder none the view is
\* the catalog: the same products in the same order.
ViewIdentity ==
    (~effectPending /\ searchTerm = <<>> /\ selectedCategory = "" /\ sortOrder = "")
        => filteredProducts = products

\* C12 witness: a catalog of three products that is not in price order is
\* displayed as it is.
ViewIdentityUnsorted ==
    /\ ~effectPending
    /\ searchTerm = <<>> /\ selectedCategory = "" /\ sortOrder = ""
    /\ Len(products) = 3
    /\ products[1].price > products[2].price
    /\ filteredProducts = products

\* C13 as stated: for a nonempty searchTerm every product in the view has a
\* title containing it case-insensitively, and no product excluded from the
\* view has such a title.
ViewIsExactlyTitleMatches ==
    (~effectPending /\ searchTerm # <<>>) =>
        /\ \A p \in ViewSet : TitleContains(p, searchTerm)
        /\ \A p \in CatalogSet \ ViewSet : ~TitleContains(p, searchTerm)

\* C13 amended: for a nonempty searchTerm every product in the view has a
\* title containing it case-insensitively, and no product excluded from the
\* view has such a title unless the category filter excludes it (a category
\* is selected and the product's category differs from it).
ViewTitleMatches ==
    (~effectPending /\ searchTerm # <<>>) =>
        /\ \A p \in ViewSet : TitleContains(p, searchTerm)
        /\ \A p \in CatalogSet \ ViewSet :
              TitleContains(p, searchTerm)
                  => (selectedCategory # "" /\ p.category # selectedCategory)

\* C13 witness: an upper-case term has kept a product whose title has it in
\* another case and dropped a product without it, no category being selected.
ViewSearchedIgnoringCase ==
    /\ ~effectPending
    /\ searchTerm = <<"S","H">>
    /\ selectedCategory = ""
    /\ RedShirt \in ViewSet
    /\ Hat \in CatalogSet \ ViewSet

\* C14 as stated: with category k selected the view is a subset of the
\* products of the catalog whose category is exactly k, and contains every
\* such product.
ViewIsExactlyCategory ==
    (~effectPending /\ selectedCategory # "") =>
        ViewSet = {p \in CatalogSet : p.category = selectedCategory}

\* C14 amended: with category k selected the view is a subset of the products
\* of the catalog whose category is exactly k, and contains every such
\* product whose title contains the searchTerm case-insensitively (every such
\* product when the searchTerm is empty).
ViewCategoryMatches ==
    (~effectPending /\ selectedCategory # "") =>
        /\ ViewSet \subseteq {p \in CatalogSet : p.category = selectedCategory}
        /\ \A p \in CatalogSet :
              (p.category = selectedCategory
               /\ (searchTerm = <<>> \/ TitleContains(p, searchTerm)))
                  => p \in ViewSet

\* C14 witness: category "clothing" keeps both of its products and drops the
\* product of category "Clothing".
ViewCategoryCaseSensitive ==
    /\ ~effectPending
    /\ selectedCategory = "clothing"
    /\ searchTerm = <<>>
    /\ ViewSet = {RedShirt, Hat}
    /\ ShirtXL \in CatalogSet

\* C15: the products in the view are exactly those that satisfy every active
\* criterion, and for the same searchTerm and category the views under the
\* three sort orders are permutations of one another.
ViewConjunctiveSortKeepsMembers ==
    ~effectPending =>
        /\ ViewSet = {p \in CatalogSet :
                         /\ searchTerm = <<>> \/ TitleContains(p, searchTerm)
                         /\ selectedCategory = "" \/ p.category = selectedCategory}
        /\ \A o \in SortOrders :
              LET other == applyFilters(products, searchTerm, selectedCategory, o).filtered
              IN  /\ Len(other) = Len(filteredProducts)
                  /\ {other[i] : i \in DOMAIN other} = ViewSet
                  /\ \A i, j \in DOMAIN other : i # j => other[i] # other[j]

\* C15 witness: search and category are both active; one product passes
\* both, one only the search and one only the category; the view is sorted.
ViewBothCriteria ==
    /\ ~effectPending
    /\ searchTerm = <<"s","h","i","r","t">>
    /\ selectedCategory = "clothing"
    /\ sortOrder = "high-low"
    /\ CatalogSet = {RedShirt, ShirtXL, Hat}
    /\ filteredProducts = <<RedShirt>>

\* C16: with low-high the view is non-decreasing by price, with high-low
\* non-increasing, and products of equal price keep the order they have in
\* the catalog; with no sort order the view is in catalog order.
ViewSortedAndStable ==
    ~effectPending =>
        \A i, j \in DOMAIN filteredProducts :
            i < j =>
                LET a == filteredProducts[i]
                    b == filteredProducts[j]
                IN  /\ sortOrder = "low-high" => a.price <= b.price
                    /\ sortOrder = "high-low" => a.price >= b.price
                    /\ (sortOrder = "" \/ a.price = b.price)
                          => PosInCatalog(a) < PosInCatalog(b)

\* C16 witness: a descending sort has moved the cheaper product last and kept
\* the two products of equal price in catalog order.
ViewSortedDescendingWithTie ==
    /\ ~effectPending
    /\ sortOrder = "high-low"
    /\ products = <<Shoe, RedShirt, ShirtXL>>
    /\ filteredProducts = <<RedShirt, ShirtXL, Shoe>>

\* C18: the category options are the distinct category values of the raw
\* catalog, each once, whatever the searchTerm, the selected category and the
\* sort order are.
CategoriesOfCatalog ==
    /\ {getCategories[i] : i \in DOMAIN getCategories} = {p.category : p \in CatalogSet}
    /\ \A i, j \in DOMAIN getCategories : i # j => getCategories[i] # getCategories[j]

\* C18 witness: two products share a category and the view is filtered down
\* to another category; the options still list both categories, once each.
CategoriesUnderFilter ==
    /\ ~effectPending
    /\ selectedCategory = "footwear"
    /\ products = <<RedShirt, Shoe, Hat>>
    /\ filteredProducts = <<Shoe>>
    /\ getCategories = <<"clothing", "footwear">>

\* C17: clearFilters resets searchTerm, category and sortOrder together: in
\* every state that follows it all three have their defaults, the cart is the
\* one before the call, and once the recomputation has run the view is the
\* full catalog in catalog order.
ClearFiltersAtomic ==
    last.op = "clearFilters" =>
        /\ searchTerm = <<>>
        /\ selectedCategory = ""
        /\ sortOrder = ""
        /\ cart = last.cart
        /\ ~effectPending => filteredProducts = products

\* C17 witness: clearFilters has reset criteria that had filtered the view
\* (the recomputation is scheduled and the list still shows the filtered
\* view), the cart holding a line.
ClearFiltersResetActiveCriteria ==
    /\ last.op = "clearFilters"
    /\ effectPending
    /\ Len(products) = 2
    /\ Len(filteredProducts) = 1
    /\ cart # <<>>

----------------------------------------------------------------------------
(* Properties of cart updates *)

\* C19: two cart operations dispatched one after the other before the
\* component has re-rendered leave the cart that applying them one after the
\* other gives: no handler overwrites the cart from a stale snapshot.
NoLostCartUpdate ==
    last.op = "batch" =>
        cart = Handle(last.second, Handle(last.first, last.cart, products).cart, products).cart

\* C20: under the events the page offers, every cart line is a line of a
\* product of the raw catalog and no product has two lines; so the cart is
\* empty while loading and after a failed load, and the catalog lookup of
\* updateQuantity finds its product (the handler does not throw).
UICartLinesAreCatalogProducts ==
    /\ \A i \in DOMAIN cart : InCatalog(cart[i].id)
    /\ \A i, j \in DOMAIN cart : i # j => cart[i].id # cart[j].id
    /\ loading => cart = <<>>
    /\ fetchState = "rejected" => cart = <<>>
    /\ last.op = "updateQuantity" => (InCatalog(last.id) /\ ~last.threw)

\* C20 witness: "+" has raised a line to quantity 2 while the cart holds two
\* lines and a search term hides one of their products from the view.
UIPlusWithLineFilteredOut ==
    /\ last.op = "updateQuantity"
    /\ last.qty = 2
    /\ Len(cart) = 2
    /\ QuantityOf(cart, last.id) = 2
    /\ ~effectPending
    /\ Len(filteredProducts) = 1

\* the cart c with the quantity of the line of product id set to n
WithQuantity(c, id, n) ==
    [i \in DOMAIN c |-> IF c[i].id = id THEN [c[i] EXCEPT !.quantity = n] ELSE c[i]]

\* C21: the two ways of incrementing agree.  For every product of the catalog
\* that has a cart line with quantity q, addToCart(product) and
\* updateQuantity(product.id, q + 1) give the same cart: the line at q + 1
\* below the stock ceiling, the cart unchanged at or above it; and a call of
\* either handler on such a line has left the cart the other one gives.
IncrementsAgree ==
    /\ \A i \in DOMAIN products :
           LET product == products[i]
           IN  HasLine(cart, product.id) =>
                   LET q      == QuantityOf(cart, product.id)
                       viaAdd == addToCart(cart, product)
                       viaSet == updateQuantity(cart, products, product.id, q + 1)
                   IN  /\ ~viaSet.threw
                       /\ viaAdd = viaSet.cart
                       /\ viaAdd = IF q < product.rating.count
                                   THEN WithQuantity(cart, product.id, q + 1)
                                   ELSE cart
    /\ (last.op = "addToCart" /\ InCatalog(last.id) /\ HasLine(last.cart, last.id)) =>
           cart = updateQuantity(last.cart, products, last.id,
                                 QuantityOf(last.cart, last.id) + 1).cart
    /\ (/\ last.op = "updateQuantity"
        /\ InCatalog(last.id)
        /\ HasLine(last.cart, last.id)
        /\ last.qty = QuantityOf(last.cart, last.id) + 1) =>
           cart = addToCart(last.cart, FindById(products, last.id))

\* C21 witness: the cart holds one line below its stock ceiling (Red Shirt, 1
\* of 2) and one at it (SHIRT XL, 1 of 1), and "+" on the line at the ceiling
\* has just left the cart unchanged.
IncrementBelowAndAtCeiling ==
    /\ products = <<RedShirt, ShirtXL>>
    /\ last.op = "updateQuantity"
    /\ last.id = 3
    /\ last.qty = 2
    /\ cart = last.cart
    /\ Len(cart) = 2
    /\ QuantityOf(cart, 1) = 1
    /\ QuantityOf(cart, 3) = 1

----------------------------------------------------------------------------
(* Independence of the filter state and the cart state *)

FilterOps == {"setSearchTerm", "setSelectedCategory", "setSortOrder", "clearFilters"}

\* C22: filter state and cart state are independent.  A step of
\* setSearchTerm, setSelectedCategory, setSortOrder or clearFilters, and a
\* run of the view recomputation, leave the cart as it was (lines, quantities
\* and order, whether or not a line's product is in the view); a step of
\* addToCart, removeFromCart or updateQuantity leaves the three criteria and
\* the displayed list as they were and schedules no recomputation; so no step
\* changes both the cart and a criterion or the displayed list.
FilterAndCartIndependent ==
    [][/\ (~effectPending /\ last'.op \in FilterOps) => cart' = cart
       /\ (effectPending /\ ~effectPending') => cart' = cart
       /\ (~effectPending /\ last'.op \in CartOps) =>
              UNCHANGED <<searchTerm, selectedCategory, sortOrder, filteredProducts,
                          effectPending>>
       /\ cart' # cart =>
              UNCHANGED <<searchTerm, selectedCategory, sortOrder, filteredProducts>>
      ]_vars

\* C22 witness: with the line of Shoe in the cart a search for "shirt" has
\* taken Shoe out of the view (the cart kept the line), and addToCart of the
\* displayed Red Shirt has then added a second line under the active search.
CartLineOutsideViewKept ==
    /\ products = <<RedShirt, Shoe>>
    /\ searchTerm = <<"s","h","i","r","t">>
    /\ ~effectPending
    /\ filteredProducts = <<RedShirt>>
    /\ last.op = "addToCart"
    /\ last.id = 1
    /\ Len(last.cart) = 1
    /\ Len(cart) = 2
    /\ cart[1].id = 2
    /\ cart[2].id = 1

====
